---- MODULE Spec2Model ----
(***************************************************************************)
(* Model of Cornels_Cryptobot.py: the position-management loop of main(),  *)
(* create_split_position, close_position_with_retry and                    *)
(* update_url_to_next_hour.                                                *)
(*                                                                         *)
(* Units: time in seconds, prices in cents (0.30 is 30), share counts in   *)
(* tenths of a share (1.0 share is 10), money (cost, value, P&L) in tenths *)
(* of a cent (shares * price).                                             *)
(***************************************************************************)
EXTENDS Integers, Sequences, FiniteSets, TLC

VARIABLES
    pc,             \* where main() (or the function under study) stands
    url,            \* main(): the current market URL
    now,            \* the wall clock, seconds
    end_time,       \* main(): the cycle boundary (next full hour)
    market,         \* main(): the market fetched by this cycle
    holdings,       \* the exchange's ledger of the account: token -> [shares, cost]
    positions,      \* main(): the tracked list of positions
    last_update,    \* main(): last_telegram_update
    call,           \* frame of the running close_position_with_retry call
    split,          \* frame of the running create_split_position call
    orders,         \* orders submitted to the exchange since the last poll/step began
    poll,           \* what the latest monitoring iteration observed and did
    cycle,          \* per-cycle record of what main() did
    exit_reason,    \* why main() left its outer loop
    arg,            \* argument of the pure function under study
    ret,            \* its result
    steps,          \* how many times it was applied
    raised          \* main(): exceptions caught by the outer loop so far

vars == <<pc, url, now, end_time, market, holdings, positions, last_update,
          call, split, orders, poll, cycle, exit_reason, arg, ret, steps, raised>>

\* Python's None where a URL is expected: the empty sequence
None == <<>>

----------------------------------------------------------------------------
(* URLs.  A URL is a sequence of segments: plain text, an hour token        *)
(* "<h>am-et" / "<h>pm-et" (any letter case), or a clock token "<h>:<mm>".  *)

MaxHour == 13

Text(t) == [kind |-> "text", h |-> 0, txt |-> t]
Am(h) == [kind |-> "am", h |-> h, txt |-> "am-et"]
Pm(h) == [kind |-> "pm", h |-> h, txt |-> "pm-et"]
AmUpper(h) == [kind |-> "am", h |-> h, txt |-> "AM-ET"]
PmUpper(h) == [kind |-> "pm", h |-> h, txt |-> "PM-ET"]
Clock(h) == [kind |-> "clock", h |-> h, txt |-> "00"]

\* re.search(pattern, url): the leftmost segment of that kind, 0 when none
Search(kind, u) ==
    LET hits == {i \in 1..Len(u) : u[i].kind = kind}
    IN IF hits = {} THEN 0 ELSE CHOOSE i \in hits : \A j \in hits : i <= j

\* increment_am_hour as it would be without the roll from 11am to 12pm
increment_am_hour_no_noon(hour) ==
    IF hour = 12 THEN Pm(1)
    ELSE Am(hour + 1)

increment_am_hour(hour) ==
    IF hour = 11 THEN Pm(12)
    ELSE IF hour = 12 THEN Pm(1)
    ELSE Am(hour + 1)

increment_pm_hour(hour) ==
    IF hour = 11 THEN Am(12)
    ELSE IF hour = 12 THEN Am(1)
    ELSE Pm(hour + 1)

increment_clock(hour) == Clock((hour + 1) % 24)

\* the new URL as it would be without the text after the match
Splice_to_match(u, i, seg) == SubSeq(u, 1, i - 1) \o <<seg>>

\* line 582: url[:match.start()] + new_hour + url[match.end():]
Splice(u, i, seg) == [u EXCEPT ![i] = seg]

update_url_to_next_hour(u) ==
    LET a == Search("am", u)
        p == Search("pm", u)
        c == Search("clock", u)
    IN IF a # 0 THEN Splice(u, a, increment_am_hour(u[a].h))
       ELSE IF p # 0 THEN Splice(u, p, increment_pm_hour(u[p].h))
       ELSE IF c # 0 THEN Splice(u, c, increment_clock(u[c].h))
       ELSE None

----------------------------------------------------------------------------
(* Markets, the ledger, prices and positions.                              *)

\* The market behind a URL: its condition id is the URL itself; a URL whose
\* first segment is Text("solo") names a market with a single outcome token.
TokensOf(u) ==
    IF u[1] = Text("solo") THEN <<[m |-> u, k |-> 1]>>
    ELSE <<[m |-> u, k |-> 1], [m |-> u, k |-> 2]>>

\* The end date the market declares (the field get_market_end_time reads),
\* in seconds on the model's clock: none for a single-outcome market, else
\* half past the hour after the first.
DeclaredEnd(u) == IF u[1] = Text("solo") THEN 0 ELSE 5400

MarketOf(u) == [condition_id |-> u, tokens |-> TokensOf(u), end_date_iso |-> DeclaredEnd(u)]

get_token_ids_from_market(m) == m.tokens

SeqToSet(s) == {s[i] : i \in 1..Len(s)}

\* The answers of the two price endpoints for one token.
Quotes ==
    { [mid |-> "price", midp |-> 25, px |-> "raise", pxp |-> 0],
      [mid |-> "price", midp |-> 30, px |-> "raise", pxp |-> 0],
      [mid |-> "raise", midp |-> 0, px |-> "price", pxp |-> 25],
      [mid |-> "empty", midp |-> 0, px |-> "price", pxp |-> 25],
      [mid |-> "raise", midp |-> 0, px |-> "raise", pxp |-> 0] }

\* lines 361-378: midpoint first, get_price only when get_midpoint raised
current_price(q) ==
    IF q.mid = "price" THEN q.midp
    ELSE IF q.mid = "empty" THEN 0
    ELSE IF q.px = "price" THEN q.pxp
    ELSE 0

\* lines 364 and 373: the endpoints asked for the price of one token
endpoints_called(q) ==
    IF q.mid = "raise" THEN <<"get_midpoint", "get_price">> ELSE <<"get_midpoint">>

OneShare == 10

\* A trade of the history the exchange returns: `mine` tells whether the
\* account is its maker or taker, size is in tenths of a share, price in cents.
BuySides == {"BUY", "MAKER_BUY"}
SellSides == {"SELL", "MAKER_SELL"}

\* lines 271-278
user_trades(trades) == SelectSeq(trades, LAMBDA tr : tr.mine)

\* AddTrade as it would be without the branch for sells
AddTrade_no_sells(ledger, tr) ==
    LET old == IF tr.token_id \in DOMAIN ledger THEN ledger[tr.token_id]
               ELSE [shares |-> 0, cost |-> 0]
        new == IF tr.side \in BuySides \/ (tr.side = "" /\ tr.size > 0)
               THEN [shares |-> old.shares + tr.size, cost |-> old.cost + tr.size * tr.price]
               ELSE old
    IN [x \in DOMAIN ledger \cup {tr.token_id} |-> IF x = tr.token_id THEN new ELSE ledger[x]]

\* lines 287-306: one trade of the account added to the totals of its token
AddTrade(ledger, tr) ==
    LET old == IF tr.token_id \in DOMAIN ledger THEN ledger[tr.token_id]
               ELSE [shares |-> 0, cost |-> 0]
        new == IF tr.side \in BuySides \/ (tr.side = "" /\ tr.size > 0)
               THEN [shares |-> old.shares + tr.size, cost |-> old.cost + tr.size * tr.price]
               ELSE IF tr.side \in SellSides
               THEN [shares |-> old.shares - tr.size, cost |-> old.cost - tr.size * tr.price]
               ELSE old
    IN [x \in DOMAIN ledger \cup {tr.token_id} |-> IF x = tr.token_id THEN new ELSE ledger[x]]

\* lines 280-306: the totals per token after all the trades of the account
RECURSIVE Aggregate(_)
Aggregate(trades) ==
    IF trades = <<>> THEN <<>>
    ELSE AddTrade(Aggregate(SubSeq(trades, 1, Len(trades) - 1)), trades[Len(trades)])

\* get_positions_from_trades: the aggregated ledger, tokens with shares > 0;
\* an exception while fetching the trades yields the empty result.
get_positions_from_trades(ledger, fetch_ok) ==
    IF fetch_ok THEN {t \in DOMAIN ledger : ledger[t].shares > 0} ELSE {}

\* Position as it would be if no P&L were computed without a price
Position_no_pnl(t, h, q) ==
    LET price == current_price(q)
        value == IF price > 0 THEN h.shares * price ELSE 0
    IN [token_id |-> t, shares |-> h.shares, total_cost |-> h.cost,
        current_price |-> price, current_value |-> value,
        pnl |-> IF price > 0 THEN value - h.cost ELSE 0]

Position(t, h, q) ==
    LET price == current_price(q)
        value == IF price > 0 THEN h.shares * price ELSE 0
    IN [token_id |-> t, shares |-> h.shares, total_cost |-> h.cost,
        current_price |-> price, current_value |-> value,
        pnl |-> value - h.cost]

\* The tokens of a set that the market lists, in the market's order.
RECURSIVE InOrder(_, _)
InOrder(ts, toks) ==
    IF toks = <<>> THEN <<>>
    ELSE IF Head(toks) \in ts THEN <<Head(toks)>> \o InOrder(ts, Tail(toks))
    ELSE InOrder(ts, Tail(toks))

\* The tokens of a set that the market does not list, by outcome number.
RECURSIVE ByOutcome(_)
ByOutcome(ts) ==
    IF ts = {} THEN <<>>
    ELSE LET t == CHOOSE x \in ts : \A y \in ts : x.k <= y.k
         IN <<t>> \o ByOutcome(ts \ {t})

\* lines 350-358: whether a held token belongs to market m
Matches(t, m) == t.m = m.condition_id \/ t \in SeqToSet(m.tokens)

\* get_market_positions as it would be without the test of lines 352-360
get_market_positions_unfiltered(ledger, m, fetch_ok, quote) ==
    LET all_positions == get_positions_from_trades(ledger, fetch_ok)
        kept == {t \in all_positions : ~(ledger[t].shares < OneShare)}
        order == InOrder(kept, m.tokens) \o ByOutcome(kept \ SeqToSet(m.tokens))
    IN [i \in 1..Len(order) |-> Position(order[i], ledger[order[i]], quote[order[i]])]

get_market_positions(ledger, m, fetch_ok, quote) ==
    LET all_positions == get_positions_from_trades(ledger, fetch_ok)
        matching == {t \in all_positions : Matches(t, m)}
        kept == {t \in matching : ~(ledger[t].shares < OneShare)}
        order == InOrder(kept, m.tokens) \o ByOutcome(kept \ SeqToSet(m.tokens))
    IN [i \in 1..Len(order) |-> Position(order[i], ledger[order[i]], quote[order[i]])]

\* min(positions, key=pnl): the first position of minimum P&L
LosingIndex(ps) ==
    CHOOSE i \in 1..Len(ps) :
        /\ \A j \in 1..Len(ps) : ps[i].pnl <= ps[j].pnl
        /\ \A j \in 1..(i - 1) : ps[j].pnl > ps[i].pnl

losing_pos(ps) == ps[LosingIndex(ps)]

PriceThreshold == 30

RemoveToken(ps, t) == SelectSeq(ps, LAMBDA p : p.token_id # t)

----------------------------------------------------------------------------
(* The exchange.  An order submission either fails while the order is      *)
(* built (create_market_order raises), fails in post_order, or post_order  *)
(* returns: a mapping, or something that is not one (the raw body text).   *)
(* An order the exchange took is fill-or-kill: it is filled whole when the *)
(* account can deliver it, and not at all otherwise.                       *)

OrderOutcomes == {"sign_error", "post_error", "mapping", "not_mapping"}

Posted(out) == out # "sign_error"
Accepted(out) == out \in {"mapping", "not_mapping"}

NoToken == [m |-> <<>>, k |-> 0]

\* How the sell orders of one close call of main() fare: "up" takes each,
\* "garbled" takes each and answers with text that is no mapping, "down"
\* refuses each, "unsigned" has each fail before it is posted.
ExchangeModes == {"up", "garbled", "down", "unsigned"}

OutcomeIn(mode) ==
    CASE mode = "up" -> "mapping"
      [] mode = "garbled" -> "not_mapping"
      [] mode = "down" -> "post_error"
      [] OTHER -> "sign_error"

SharesHeld(ledger, t) == IF t \in DOMAIN ledger THEN ledger[t].shares ELSE 0

\* a filled market buy of 5 dollars at 50 cents: 10 shares
FillPrice == 50

BuyFill(ledger, t, amount_usd) ==
    LET bought == (amount_usd * OneShare) \div FillPrice
        old == IF t \in DOMAIN ledger THEN ledger[t] ELSE [shares |-> 0, cost |-> 0]
        new == [shares |-> old.shares + bought, cost |-> old.cost + bought * FillPrice]
    IN [x \in DOMAIN ledger \cup {t} |-> IF x = t THEN new ELSE ledger[x]]

\* a filled market sell of the whole holding: the token leaves the ledger
SellFill(ledger, t, shares) ==
    IF SharesHeld(ledger, t) = shares
    THEN [x \in DOMAIN ledger \ {t} |-> ledger[x]]
    ELSE [ledger EXCEPT ![t].shares = @ - shares, ![t].cost = @ - shares * FillPrice]

CanFill(ledger, t, amount) == amount > 0 /\ SharesHeld(ledger, t) >= amount

\* the ledger after the exchange answered a sell order with `out`
AfterSell(ledger, t, shares, out) ==
    IF Accepted(out) /\ CanFill(ledger, t, shares)
    THEN SellFill(ledger, t, shares) ELSE ledger

----------------------------------------------------------------------------
(* close_position_with_retry(client, token_id, shares, outcome,            *)
(*                           max_retries=10, position_info)                *)

DefaultMaxRetries == 10
MaxBackoff == 10

Min(a, b) == IF a < b THEN a ELSE b

\* the wait as it would be if it grew by 2 seconds per attempt
wait_time_linear(attempt) == Min(2 * attempt, MaxBackoff)

\* line 507
wait_time(attempt) == Min(2 ^ attempt, MaxBackoff)

RECURSIVE Sum(_)
Sum(s) == IF s = <<>> THEN 0 ELSE Head(s) + Sum(Tail(s))

\* The frame of a call: `attempt` passes of the loop begun, `posted` orders
\* handed to post_order, `accepted` of them answered without an exception,
\* `waits` the sleeps taken, `result` the value returned once `active` is off.
IdleCall ==
    [active |-> FALSE, token_id |-> NoToken, shares |-> 0, max_retries |-> 0,
     attempt |-> 0, posted |-> 0, accepted |-> 0, waits |-> <<>>, result |-> FALSE]

NewCall(t, shares, max_retries) ==
    [IdleCall EXCEPT !.active = TRUE, !.token_id = t, !.shares = shares,
                     !.max_retries = max_retries]

Return(c, result) == [c EXCEPT !.active = FALSE, !.result = result]

\* lines 465-467 and 514: the call returns without entering the loop body
Skips(c) == c.shares < OneShare \/ c.attempt >= c.max_retries

\* lines 469-512: one pass of the retry loop, the exchange answering `out`
Attempt(c, out) ==
    LET d == [c EXCEPT !.attempt = @ + 1,
                       !.posted = IF Posted(out) THEN @ + 1 ELSE @,
                       !.accepted = IF Accepted(out) THEN @ + 1 ELSE @]
    IN IF out = "mapping" THEN Return(d, TRUE)                     \* line 500
       ELSE IF d.attempt < d.max_retries                           \* lines 506-509
       THEN [d EXCEPT !.waits = Append(@, wait_time(d.attempt))]
       ELSE Return(d, FALSE)                                       \* line 512

\* the whole call against an exchange in one mode: the frame at return and
\* the ledger then
RECURSIVE RunClose(_, _, _)
RunClose(c, ledger, mode) ==
    IF ~c.active THEN [call |-> c, ledger |-> ledger]
    ELSE IF Skips(c) THEN RunClose(Return(c, FALSE), ledger, mode)
    ELSE RunClose(Attempt(c, OutcomeIn(mode)),
                  AfterSell(ledger, c.token_id, c.shares, OutcomeIn(mode)), mode)

\* what the order log keeps of a call, or of one buy order
Summary(side, t, amount, posted, accepted, result) ==
    [side |-> side, token_id |-> t, amount |-> amount, posted |-> posted,
     accepted |-> accepted, result |-> result]

SellSummary(c) == Summary("SELL", c.token_id, c.shares, c.posted, c.accepted, c.result)

\* one step of a call that runs alone
CloseStep ==
    /\ pc = "closing"
    /\ IF Skips(call)
       THEN /\ call' = Return(call, FALSE)
            /\ UNCHANGED <<now, holdings>>
       ELSE \E out \in OrderOutcomes :
               /\ call' = Attempt(call, out)
               /\ holdings' = AfterSell(holdings, call.token_id, call.shares, out)
               /\ now' = now + Sum(call'.waits) - Sum(call.waits)
    /\ pc' = IF call'.active THEN "closing" ELSE "returned"
    /\ orders' = IF call'.active THEN orders
                 ELSE Append(orders, SellSummary(call'))
    /\ UNCHANGED <<url, end_time, market, positions, last_update, split, poll,
                   cycle, exit_reason, arg, ret, steps, raised>>

----------------------------------------------------------------------------
(* create_split_position(client, market, amount_usd=5.0); money in cents   *)

DefaultAmountUsd == 500

\* The frame of a call: the next outcome token is the i-th, `buys` lists the
\* orders the loop built (each with whether it reached post_order and whether
\* the exchange took it), `accepted` counts those the exchange took.
IdleSplit == [active |-> FALSE, i |-> 0, success_count |-> 0, amount_usd |-> 0,
              buys |-> <<>>, accepted |-> 0, notified |-> FALSE, result |-> FALSE]

NewSplit(amount_usd) == [IdleSplit EXCEPT !.active = TRUE, !.i = 1, !.amount_usd = amount_usd]

\* lines 447-459: the Telegram message when an order was placed, the result
SplitReturn(f, result) ==
    [f EXCEPT !.active = FALSE, !.notified = (f.success_count > 0), !.result = result]

\* lines 426-445: the order for one outcome token, the exchange answering `out`
SplitOrder(f, t, out) ==
    [f EXCEPT !.i = @ + 1,
              !.success_count = IF out = "mapping" THEN @ + 1 ELSE @,
              !.accepted = IF Accepted(out) THEN @ + 1 ELSE @,
              !.buys = Append(@, Summary("BUY", t, f.amount_usd,
                                         IF Posted(out) THEN 1 ELSE 0,
                                         IF Accepted(out) THEN 1 ELSE 0,
                                         out = "mapping"))]

\* create_split_position as it would be if the loop stopped at the first
\* order that failed
SplitEnds_stops(f, token_outcomes) ==
    \/ Len(token_outcomes) < 2
    \/ f.i > Len(token_outcomes)
    \/ f.success_count < f.i - 1

\* lines 415-419 and 447-459: the call returns
SplitEnds(f, token_outcomes) == Len(token_outcomes) < 2 \/ f.i > Len(token_outcomes)

SplitResult(f, token_outcomes) ==
    IF Len(token_outcomes) < 2 THEN FALSE ELSE f.success_count = Len(token_outcomes)

AfterBuy(ledger, t, amount_usd, out) ==
    IF Accepted(out) THEN BuyFill(ledger, t, amount_usd) ELSE ledger

\* the whole call, the exchange answering the i-th order with outs[i]
RECURSIVE RunSplit(_, _, _, _)
RunSplit(f, ledger, token_outcomes, outs) ==
    IF ~f.active THEN [split |-> f, ledger |-> ledger]
    ELSE IF SplitEnds(f, token_outcomes)
    THEN RunSplit(SplitReturn(f, SplitResult(f, token_outcomes)), ledger, token_outcomes, outs)
    ELSE RunSplit(SplitOrder(f, token_outcomes[f.i], outs[f.i]),
                  AfterBuy(ledger, token_outcomes[f.i], f.amount_usd, outs[f.i]),
                  token_outcomes, outs)

\* one step of a call that runs alone
SplitStep ==
    LET token_outcomes == get_token_ids_from_market(market)
    IN /\ pc = "opening"
       /\ IF SplitEnds(split, token_outcomes)
          THEN /\ split' = SplitReturn(split, SplitResult(split, token_outcomes))
               /\ pc' = "returned"
               /\ UNCHANGED holdings
          ELSE \E out \in OrderOutcomes :
                  /\ split' = SplitOrder(split, token_outcomes[split.i], out)
                  /\ holdings' = AfterBuy(holdings, token_outcomes[split.i],
                                          split.amount_usd, out)
                  /\ pc' = "opening"
       /\ orders' = split'.buys
       /\ UNCHANGED <<url, now, end_time, market, positions, last_update, call,
                      poll, cycle, exit_reason, arg, ret, steps, raised>>

----------------------------------------------------------------------------
(* main(): the outer loop (lines 784-941) and the monitoring loop          *)
(* (lines 844-911).  The clock advances in the sleeps of the code; the     *)
(* calls to the exchange are taken to return at once.                      *)

Hour == 3600
CheckDelay == 60
FillDelay == 5
PollPeriod == 60
CycleDelay == 10
RetryPause == 30
telegram_update_interval == 300
RuleFrom == 420
RuleUntil == 480
FinalWindow == 60

StartTime == 3054
MaxNow == 3660
MaxErrors == 1

\* the boundary as it would be without the added hour
NextHour_floor(t) == (t \div Hour) * Hour

\* lines 808-811: the next full hour after t
NextHour(t) == (t \div Hour) * Hour + Hour

\* What an iteration of the monitoring loop observed: the seconds remaining,
\* the positions it fetched and the price answers for them, whether 300
\* seconds had passed since last_telegram_update, whether it sent a status.
NoPoll == [kind |-> "none", r |-> 0, tracked |-> <<>>, quotes |-> <<>>,
           due |-> FALSE, status |-> FALSE]

\* What the iteration of the outer loop has done: `rolled` tells that its URL
\* came from update_url_to_next_hour, `windows` counts the polls that saw
\* 7 <= minutes < 8.
NewCycle == [accepted |-> 0, opened |-> FALSE, rule7 |-> NoToken,
             rolled |-> FALSE, windows |-> 0]

\* the answers of the price endpoints main() is run against: a midpoint of
\* 0.25 or 0.30, or both endpoints failing
MainQuotes == {q \in Quotes : q.mid = "price" \/ (q.mid = "raise" /\ q.px = "raise")}

\* the answers for the tokens of m the account holds
QuoteMaps(ledger, m) == [SeqToSet(m.tokens) \cap DOMAIN ledger -> MainQuotes]

\* the exchange's answers to the orders for n outcome tokens or positions
OutcomeSeqs(n) == [1..n -> OrderOutcomes]
ModeSeqs(n) == [1..n -> ExchangeModes]

\* the operator's answers to the manual URL prompt
ManualInputs == {<<>>, <<Text("btc"), Pm(1)>>}

\* whether a call may raise at this point of the run
MayRaise == IF raised < MaxErrors THEN BOOLEAN ELSE {FALSE}

\* lines 794, 802, 831, 925, 934: the outer loop is left
Stop(reason) ==
    /\ pc' = "done"
    /\ exit_reason' = reason
    /\ raised' = raised

\* the handler as it would be if it left the loop instead of retrying
Caught_exits ==
    /\ pc' = "done"
    /\ exit_reason' = "exception"
    /\ raised' = raised + 1

\* lines 935-939: the handler of the outer loop takes over
Caught ==
    /\ pc' = "error_pause"
    /\ exit_reason' = exit_reason
    /\ raised' = raised + 1

\* the iteration goes on
Goes(to) ==
    /\ pc' = to
    /\ exit_reason' = exit_reason
    /\ raised' = raised

\* The locals of an iteration that the next one assigns before it reads
\* them (lines 825, 841), and the record of what the iteration did.
Forget ==
    /\ positions' = <<>>
    /\ last_update' = 0
    /\ poll' = NoPoll
    /\ orders' = <<>>

\* lines 786-814
Resolve ==
    /\ pc = "resolve"
    /\ now <= MaxNow
    /\ \E raises \in MayRaise, found \in BOOLEAN :
          IF url = <<>> THEN                                       \* lines 791-794
             Stop("no_market_id") /\ UNCHANGED <<market, end_time, cycle, split>>
          ELSE IF raises THEN
             Caught /\ UNCHANGED <<market, end_time, cycle, split>>
          ELSE IF ~found THEN                                      \* lines 800-802
             Stop("no_market") /\ UNCHANGED <<market, end_time, cycle, split>>
          ELSE /\ market' = MarketOf(url)
               /\ end_time' = NextHour(now)
               /\ cycle' = NewCycle
               /\ split' = IdleSplit
               /\ Goes("wait_check")
    /\ UNCHANGED <<url, now, holdings, positions, last_update, call,
                   orders, poll, arg, ret, steps>>

\* lines 816-821
WaitCheck ==
    /\ pc = "wait_check"
    /\ now' = now + CheckDelay
    /\ pc' = "check"
    /\ UNCHANGED <<url, end_time, market, holdings, positions, last_update, call,
                   split, orders, poll, cycle, exit_reason, arg, ret, steps, raised>>

\* lines 829-834: no position found; the split is opened, and if every order
\* was placed the positions are fetched again 5 seconds later
Open(outs) ==
    \E run \in {RunSplit(NewSplit(DefaultAmountUsd), holdings,
                          get_token_ids_from_market(market), outs)} :
       /\ split' = run.split
       /\ holdings' = run.ledger
       /\ orders' = run.split.buys
       /\ cycle' = [cycle EXCEPT !.opened = TRUE, !.accepted = run.split.accepted]
       /\ IF ~run.split.result
          THEN Stop("split_failed") /\ positions' = <<>> /\ UNCHANGED <<now, last_update>>
          ELSE \E raises \in MayRaise :
                  /\ now' = now + FillDelay
                  /\ IF raises
                     THEN Caught /\ positions' = <<>> /\ UNCHANGED last_update
                     ELSE \E fetch_ok \in BOOLEAN, quote \in QuoteMaps(run.ledger, market) :
                          /\ positions' = get_market_positions(run.ledger, market,
                                                               fetch_ok, quote)
                          /\ last_update' = now'
                          /\ Goes("monitor")

\* lines 823-842
Check ==
    /\ pc = "check"
    /\ \E raises \in MayRaise :
          IF raises
          THEN Caught /\ UNCHANGED <<now, holdings, positions, split, cycle,
                                     last_update, orders>>
          ELSE \E fetch_ok \in BOOLEAN, quote \in QuoteMaps(holdings, market) :
             \E found \in {get_market_positions(holdings, market, fetch_ok, quote)} :
             IF found = <<>>
             THEN \E outs \in OutcomeSeqs(Len(get_token_ids_from_market(market))) :
                     Open(outs)
             ELSE /\ positions' = found
                  /\ last_update' = now
                  /\ orders' = <<>>
                  /\ Goes("monitor")
                  /\ UNCHANGED <<now, holdings, split, cycle>>
    /\ UNCHANGED <<url, end_time, market, call, poll, arg, ret, steps>>

\* line 863: a status update is due
StatusDue(t) == t - last_update >= telegram_update_interval

\* line 872
InRuleWindow(r) == RuleFrom <= r /\ r < RuleUntil

\* the 7-minute rule as it would be with "<=" for "<" at line 879
Rule7Sells_at_threshold(r, ps) ==
    /\ InRuleWindow(r)
    /\ Len(ps) >= 2
    /\ losing_pos(ps).current_price <= PriceThreshold

\* lines 875-879: the 7-minute rule sells the losing position
Rule7Sells(r, ps) ==
    /\ InRuleWindow(r)
    /\ Len(ps) >= 2
    /\ losing_pos(ps).current_price < PriceThreshold

\* the final close as it would be with a window of 2 minutes
AtHourEnd_two_minutes(r) == r <= 2 * FinalWindow

\* line 894
AtHourEnd(r) == r <= FinalWindow

\* line 849
HourOver(r) == r <= 0

\* What an iteration has done so far: the list, the ledger, the close calls
\* made (their frames at return) and the seconds they slept.
Progress(ps, ledger) == [ps |-> ps, ledger |-> ledger, calls |-> <<>>]

CloseOne(g, p, mode) ==
    LET run == RunClose(NewCall(p.token_id, p.shares, DefaultMaxRetries), g.ledger, mode)
    IN [g EXCEPT !.ledger = run.ledger, !.calls = Append(@, run.call)]

\* lines 875-891
Rule7(g, r, mode) ==
    IF Rule7Sells(r, g.ps)
    THEN [CloseOne(g, losing_pos(g.ps), mode)
             EXCEPT !.ps = RemoveToken(g.ps, losing_pos(g.ps).token_id)]
    ELSE g

\* the final close as it would be if a failed close ended it
RECURSIVE CloseAll_stops(_, _, _)
CloseAll_stops(g, i, modes) ==
    IF i > Len(g.ps) THEN g
    ELSE LET h == CloseOne(g, g.ps[i], modes[i])
         IN IF h.calls[Len(h.calls)].result THEN CloseAll_stops(h, i + 1, modes) ELSE h

\* lines 896-903
RECURSIVE CloseAll(_, _, _)
CloseAll(g, i, modes) ==
    IF i > Len(g.ps) THEN g
    ELSE CloseAll(CloseOne(g, g.ps[i], modes[i]), i + 1, modes)

\* lines 894-904
HourEnd(g, r, modes) == IF AtHourEnd(r) THEN CloseAll(g, 1, modes) ELSE g

Slept(calls) == Sum([i \in 1..Len(calls) |-> Sum(calls[i].waits)])

\* lines 844-911: one iteration of the monitoring loop, up to its sleep
Poll ==
    LET r == end_time - now
    IN /\ pc = "monitor"
       /\ IF HourOver(r)                                           \* lines 849-851
          THEN /\ Goes("roll")
               /\ poll' = [NoPoll EXCEPT !.kind = "over", !.r = r, !.tracked = positions,
                                          !.due = StatusDue(now)]
               /\ orders' = <<>>
               /\ UNCHANGED <<now, holdings, positions, last_update, cycle>>
          ELSE \E raises \in MayRaise :
                  IF raises
                  THEN Caught /\ UNCHANGED <<now, holdings, positions, last_update,
                                             cycle, poll, orders>>
                  ELSE \E fetch_ok \in BOOLEAN, quote \in QuoteMaps(holdings, market) :
                       \E ps \in {get_market_positions(holdings, market, fetch_ok, quote)},
                          due \in {StatusDue(now)} :
                       \E mode \in IF Rule7Sells(r, ps) THEN ExchangeModes ELSE {"up"},
                          modes \in ModeSeqs(IF AtHourEnd(r) THEN Len(ps) ELSE 0) :
                       \E g \in {HourEnd(Rule7(Progress(ps, holdings), r, mode), r, modes)} :
                          /\ positions' = g.ps
                          /\ holdings' = g.ledger
                          /\ now' = now + Slept(g.calls)
                          /\ orders' = [i \in 1..Len(g.calls) |-> SellSummary(g.calls[i])]
                          /\ last_update' = IF due THEN now ELSE last_update
                          /\ poll' = [kind |-> IF Rule7Sells(r, ps) THEN "rule7"
                                               ELSE IF AtHourEnd(r) THEN "final"
                                               ELSE "wait",
                                      r |-> r, tracked |-> ps,
                                      quotes |-> [i \in 1..Len(ps) |-> quote[ps[i].token_id]],
                                      due |-> due,
                                      status |-> (due /\ ps # <<>>)]
                          /\ cycle' = [cycle EXCEPT
                                          !.rule7 = IF Rule7Sells(r, ps)
                                                    THEN losing_pos(ps).token_id ELSE @,
                                          !.windows = IF InRuleWindow(r) THEN @ + 1 ELSE @]
                          /\ Goes(IF AtHourEnd(r) THEN "roll" ELSE "sleep")
       /\ UNCHANGED <<url, end_time, market, call, split, arg, ret, steps>>

\* the wait between two polls as it would be at 30 seconds
Sleep_short ==
    /\ pc = "sleep"
    /\ now <= MaxNow
    /\ now' = now + RetryPause
    /\ pc' = "monitor"
    /\ UNCHANGED <<url, end_time, market, holdings, positions, last_update, call,
                   split, orders, poll, cycle, exit_reason, arg, ret, steps, raised>>

\* lines 906-911
Sleep ==
    /\ pc = "sleep"
    /\ now <= MaxNow
    /\ now' = now + PollPeriod
    /\ pc' = "monitor"
    /\ UNCHANGED <<url, end_time, market, holdings, positions, last_update, call,
                   split, orders, poll, cycle, exit_reason, arg, ret, steps, raised>>

\* lines 913-929
Roll ==
    LET new_url == update_url_to_next_hour(url)
    IN /\ pc = "roll"
       /\ IF new_url # None
          THEN /\ url' = new_url
               /\ now' = now + CycleDelay
               /\ pc' = "resolve"
          ELSE /\ pc' = "manual"
               /\ UNCHANGED <<url, now>>
       /\ cycle' = [cycle EXCEPT !.rolled = (new_url # None)]
       /\ Forget
       /\ UNCHANGED <<end_time, market, holdings, call, split,
                      exit_reason, arg, ret, steps, raised>>

\* lines 921-929: the operator is asked for the next URL
Manual ==
    /\ pc = "manual"
    /\ \E raises \in MayRaise, entered \in ManualInputs :
          IF raises
          THEN Caught /\ UNCHANGED <<url, now>>
          ELSE IF entered = <<>>
          THEN Stop("empty_url") /\ url' = entered /\ UNCHANGED now
          ELSE /\ url' = entered
               /\ now' = now + CycleDelay
               /\ Goes("resolve")
    /\ UNCHANGED <<end_time, market, holdings, positions, last_update, call, split,
                   orders, poll, cycle, arg, ret, steps>>

\* lines 935-941: report, wait 30 seconds, start the next iteration
ErrorPause ==
    /\ pc = "error_pause"
    /\ now' = now + RetryPause
    /\ pc' = "resolve"
    /\ Forget
    /\ UNCHANGED <<url, end_time, market, holdings, call,
                   split, cycle, exit_reason, arg, ret, steps, raised>>

\* lines 931-934: the operator interrupts the process, whose locals end with it
Interrupt ==
    /\ pc \notin {"done"}
    /\ Stop("interrupt")
    /\ Forget
    /\ split' = IdleSplit
    /\ UNCHANGED <<url, now, end_time, market, holdings, call, cycle, arg, ret, steps>>

InitUrls == {<<Text("btc"), Am(11)>>, <<Text("solo")>>}

\* what the account may hold in the market of u when the bot starts
InitLedgers(u) ==
    LET t == TokensOf(u)
    IN { <<>>,
         [x \in {t[1]} |-> [shares |-> 5, cost |-> 250]],
         [x \in SeqToSet(t) |-> IF x = t[1] THEN [shares |-> 200, cost |-> 14000]
                                ELSE [shares |-> 100, cost |-> 2000]] }

Init ==
    /\ pc = "resolve"
    /\ url \in InitUrls
    /\ now = StartTime
    /\ end_time = 0
    /\ market = MarketOf(url)
    /\ holdings \in InitLedgers(url)
    /\ positions = <<>>
    /\ last_update = 0
    /\ call = IdleCall
    /\ split = IdleSplit
    /\ orders = <<>>
    /\ poll = NoPoll
    /\ cycle = NewCycle
    /\ exit_reason = "running"
    /\ arg = <<>>
    /\ ret = FALSE
    /\ steps = 0
    /\ raised = 0

Next ==
    \/ Resolve
    \/ WaitCheck
    \/ Check
    \/ Poll
    \/ Sleep
    \/ Roll
    \/ Manual
    \/ ErrorPause
    \/ Interrupt

Spec == Init /\ [][Next]_vars

----------------------------------------------------------------------------
(* update_url_to_next_hour on its own: applied to a URL, and to its own     *)
(* result again as main() does cycle after cycle.                          *)

MaxRolls == 12

HourTokens ==
    UNION {{Am(h), Pm(h), AmUpper(h), PmUpper(h), Clock(h)} : h \in 0..MaxHour}

UrlInputs ==
    {<<Text("btc"), t>> : t \in HourTokens}
        \cup {<<Text("btc")>>, <<Text("jan"), Pm(3), Text("x"), Am(7)>>,
              <<Text("jan"), Clock(16), Text("x"), Pm(11)>>}

NoMarket == [condition_id |-> <<>>, tokens |-> <<>>]

\* the variables of main() while a function is studied on its own
MainIdle ==
    /\ now = 0
    /\ end_time = 0
    /\ positions = <<>>
    /\ last_update = 0
    /\ orders = <<>>
    /\ poll = NoPoll
    /\ cycle = NewCycle
    /\ exit_reason = "running"
    /\ raised = 0

\* `url` keeps the URL the run began with
InitUrl ==
    /\ pc = "url_call"
    /\ arg \in UrlInputs
    /\ url = arg
    /\ ret = None
    /\ steps = 0
    /\ market = NoMarket
    /\ holdings = <<>>
    /\ call = IdleCall
    /\ split = IdleSplit
    /\ MainIdle

\* line 915
UrlCall ==
    /\ pc = "url_call"
    /\ ret' = update_url_to_next_hour(arg)
    /\ steps' = steps + 1
    /\ pc' = "url_ret"
    /\ UNCHANGED <<url, now, end_time, market, holdings, positions, last_update,
                   call, split, orders, poll, cycle, exit_reason, arg, raised>>

\* lines 917-918: the result becomes the URL of the next cycle
UrlAgain ==
    /\ pc = "url_ret"
    /\ ret # None
    /\ steps < MaxRolls
    /\ arg' = ret
    /\ pc' = "url_call"
    /\ UNCHANGED <<url, now, end_time, market, holdings, positions, last_update,
                   call, split, orders, poll, cycle, exit_reason, ret, steps, raised>>

\* lines 920-925: no hour token was found; the operator enters the next URL
\* and the run goes on from it, or enters nothing and main() ends
UrlManual ==
    /\ pc = "url_ret"
    /\ ret = None
    /\ \E entered \in ManualInputs :
          IF entered = <<>>
          THEN /\ pc' = "url_done"
               /\ UNCHANGED <<url, arg, steps>>
          ELSE /\ arg' = entered
               /\ url' = entered
               /\ steps' = 0
               /\ pc' = "url_call"
    /\ UNCHANGED <<now, end_time, market, holdings, positions, last_update,
                   call, split, orders, poll, cycle, exit_reason, ret, raised>>

NextUrl == UrlCall \/ UrlAgain \/ UrlManual

SpecUrl == InitUrl /\ [][NextUrl]_vars

----------------------------------------------------------------------------
(* close_position_with_retry on its own, the exchange free to answer each  *)
(* order in any way.                                                       *)

MaxTries == 3

TokenOne == [m |-> <<Text("btc")>>, k |-> 1]

CloseShares == {5, OneShare, 200}

InitClose ==
    /\ pc = "closing"
    /\ call \in {NewCall(TokenOne, sh, mr) :
                    sh \in CloseShares, mr \in (0..MaxTries) \cup {DefaultMaxRetries}}
    /\ holdings = [x \in {TokenOne} |-> [shares |-> 200, cost |-> 14000]]
    /\ url = <<>>
    /\ market = NoMarket
    /\ split = IdleSplit
    /\ arg = <<>>
    /\ ret = None
    /\ steps = 0
    /\ MainIdle

SpecClose == InitClose /\ [][CloseStep]_vars

----------------------------------------------------------------------------
(* create_split_position on its own, for markets of 0 and more outcome     *)
(* tokens and an account that holds nothing.                               *)

MaxOutcomes == 3

MarketWith(n) ==
    [condition_id |-> <<Text("btc")>>,
     tokens |-> [i \in 1..n |-> [m |-> <<Text("btc")>>, k |-> i]]]

SplitAmounts == {DefaultAmountUsd, 2 * DefaultAmountUsd}

InitSplit ==
    /\ pc = "opening"
    /\ market \in {MarketWith(n) : n \in 0..MaxOutcomes}
    /\ split \in {NewSplit(a) : a \in SplitAmounts}
    /\ url = <<>>
    /\ holdings = <<>>
    /\ call = IdleCall
    /\ arg = <<>>
    /\ ret = None
    /\ steps = 0
    /\ MainIdle

SpecSplit == InitSplit /\ [][SplitStep]_vars

----------------------------------------------------------------------------
(* get_market_positions on its own, over the trade histories the exchange  *)
(* may return: trades of the account and of others, in a token the market  *)
(* lists, in one it does not list but whose trades name the market, and in *)
(* a token of another market.                                              *)

MaxTrades == 3

TradedMarket == MarketOf(<<Text("btc"), Am(11)>>)

ListedToken == TradedMarket.tokens[1]
UnlistedToken == [m |-> TradedMarket.condition_id, k |-> 3]
ForeignToken == [m |-> <<Text("eth"), Am(11)>>, k |-> 1]

TradeTokens == {ListedToken, UnlistedToken, ForeignToken}

Trades ==
    [token_id : TradeTokens, side : {"BUY", "SELL"}, size : {5, OneShare},
     price : {FillPrice}, mine : BOOLEAN]

TradeSeqs == UNION {[1..n -> Trades] : n \in 0..MaxTrades}

\* every held token quoted at a midpoint of 0.25
FlatQuote(ledger) ==
    [t \in DOMAIN ledger |-> [mid |-> "price", midp |-> 25, px |-> "raise", pxp |-> 0]]

InitTrades ==
    /\ pc = "positions_call"
    /\ arg \in TradeSeqs
    /\ ret = None
    /\ steps = 0
    /\ url = TradedMarket.condition_id
    /\ market = TradedMarket
    /\ holdings = <<>>
    /\ call = IdleCall
    /\ split = IdleSplit
    /\ MainIdle

\* lines 318-410, the trades fetched without an exception
PositionsCall ==
    /\ pc = "positions_call"
    /\ holdings' = Aggregate(user_trades(arg))
    /\ ret' = get_market_positions(holdings', market, TRUE, FlatQuote(holdings'))
    /\ steps' = steps + 1
    /\ pc' = "positions_ret"
    /\ UNCHANGED <<url, now, end_time, market, positions, last_update,
                   call, split, orders, poll, cycle, exit_reason, arg, raised>>

SpecTrades == InitTrades /\ [][PositionsCall]_vars

----------------------------------------------------------------------------
(* get_market_positions on its own, over the answers of the two price      *)
(* endpoints: a price, an exception, or an answer that holds no price      *)
(* (None, an empty mapping, text).                                         *)

PriceQuotes ==
    Quotes \cup
    { [mid |-> "raise", midp |-> 0, px |-> "empty", pxp |-> 0],
      [mid |-> "empty", midp |-> 0, px |-> "raise", pxp |-> 0] }

\* what the account holds of one token: dust, or 10 shares bought at 0.50
PriceHoldings == {[shares |-> 5, cost |-> 250], [shares |-> 100, cost |-> 5000]}

PriceLedgers ==
    UNION {[ts -> PriceHoldings] : ts \in (SUBSET SeqToSet(TradedMarket.tokens)) \ {{}}}

InitPrice ==
    /\ pc = "price_call"
    /\ holdings \in PriceLedgers
    /\ arg \in [DOMAIN holdings -> PriceQuotes]
    /\ ret = None
    /\ steps = 0
    /\ url = TradedMarket.condition_id
    /\ market = TradedMarket
    /\ call = IdleCall
    /\ split = IdleSplit
    /\ MainIdle

\* lines 318-410: the positions returned, and per matching token the
\* endpoints that were asked
PriceCall ==
    /\ pc = "price_call"
    /\ ret' = [positions |-> get_market_positions(holdings, market, TRUE, arg),
               calls |-> [t \in {x \in DOMAIN holdings : Matches(x, market)}
                             |-> endpoints_called(arg[t])]]
    /\ steps' = steps + 1
    /\ pc' = "price_ret"
    /\ UNCHANGED <<url, now, end_time, market, holdings, positions, last_update,
                   call, split, orders, poll, cycle, exit_reason, arg, raised>>

SpecPrice == InitPrice /\ [][PriceCall]_vars

----------------------------------------------------------------------------
(* get_market_info(client, market_identifier) on its own.  Of an           *)
(* identifier the code reads whether it starts with "0x" and its length;   *)
(* the empty string has length 0.  The metadata service answers a slug     *)
(* with nothing (an error, "not found"), with a record that lacks a        *)
(* condition id, or with a record that has one; the exchange answers a     *)
(* lookup with a market, with None, or raises.                             *)

NoId == [hex |-> FALSE, len |-> 0]
Slug == [hex |-> FALSE, len |-> 18]
ConditionId == [hex |-> TRUE, len |-> 66]

Identifiers == {NoId, Slug, ConditionId, [hex |-> TRUE, len |-> 4], [hex |-> TRUE, len |-> 10]}

is_condition_id(id) == id.hex /\ id.len > 10                       \* line 219

NoRecord == [found |-> FALSE, conditionId |-> NoId, slug |-> NoId]

\* get_market_from_gamma_api(slug), lines 197-211
GammaAnswers(id) ==
    {NoRecord,
     [found |-> TRUE, conditionId |-> NoId, slug |-> id],
     [found |-> TRUE, conditionId |-> ConditionId, slug |-> id]}

\* client.get_market(key)
NoAnswer == [kind |-> "none", key |-> NoId]
ExchangeAnswers(key) ==
    {[kind |-> "raise", key |-> key], NoAnswer, [kind |-> "market", key |-> key]}

\* what the function hands back: nothing, the exchange's answer, or the
\* metadata record
Nothing == [from |-> "nothing", answer |-> NoAnswer, record |-> NoRecord]
FromExchange(a) ==
    IF a.kind = "none" THEN Nothing
    ELSE [from |-> "exchange", answer |-> a, record |-> NoRecord]
FromMetadata(g) == [from |-> "metadata", answer |-> NoAnswer, record |-> g]

\* lines 214-247.  e.gamma is the metadata answer, e.by_identifier and
\* e.by_condition the exchange's answers to a lookup by the identifier and
\* by the record's condition id; `asked` lists the lookups made.
get_market_info(id, e) ==
    IF id.len = 0 THEN [value |-> Nothing, asked |-> <<>>]
    ELSE IF is_condition_id(id)
    THEN [value |-> IF e.by_identifier.kind = "raise" THEN Nothing
                    ELSE FromExchange(e.by_identifier),
          asked |-> <<"exchange_by_identifier">>]
    ELSE IF e.gamma.found
    THEN IF e.gamma.conditionId.len > 0
         THEN [value |-> IF e.by_condition.kind = "raise" THEN FromMetadata(e.gamma)
                         ELSE FromExchange(e.by_condition),
               asked |-> <<"metadata", "exchange_by_condition">>]
         ELSE [value |-> FromMetadata(e.gamma), asked |-> <<"metadata">>]
    ELSE [value |-> IF e.by_identifier.kind = "raise" THEN Nothing
                    ELSE FromExchange(e.by_identifier),
          asked |-> <<"metadata", "exchange_by_identifier">>]

InfoInputs ==
    UNION {[id : {id}, gamma : GammaAnswers(id), by_identifier : ExchangeAnswers(id),
            by_condition : ExchangeAnswers(ConditionId)] : id \in Identifiers}

InitInfo ==
    /\ pc = "info_call"
    /\ arg \in InfoInputs
    /\ ret = None
    /\ steps = 0
    /\ url = <<>>
    /\ market = NoMarket
    /\ holdings = <<>>
    /\ call = IdleCall
    /\ split = IdleSplit
    /\ MainIdle

\* line 798
InfoCall ==
    /\ pc = "info_call"
    /\ ret' = get_market_info(arg.id, arg)
    /\ steps' = steps + 1
    /\ pc' = "info_ret"
    /\ UNCHANGED <<url, now, end_time, market, holdings, positions, last_update,
                   call, split, orders, poll, cycle, exit_reason, arg, raised>>

SpecInfo == InitInfo /\ [][InfoCall]_vars

----------------------------------------------------------------------------
(* send_telegram_notification(message) on its own: the caller and the      *)
(* worker thread it starts.  `arg` holds the configuration and what        *)
(* becomes of the send in the worker; `ret` is the frame of the call.      *)

JoinTimeout == 10

\* "unstartable": thread.start() itself raises
WorkerFates == {"succeeds", "raises", "hangs", "unstartable"}

TelegramInputs ==
    [available : BOOLEAN, token : BOOLEAN, chat : BOOLEAN, fate : WorkerFates]

\* `worker` is "none", "running" or "done"; `waited` the seconds the caller
\* has spent in join; `done_at` the value of `waited` when the worker ended
\* (-1 while it has not); `sends` the calls of bot.send_message; `outcome`
\* what the caller reported; `raised` whether an exception left the call.
NewNotify ==
    [worker |-> "none", result_queue |-> 0, error_queue |-> 0, sends |-> 0,
     waited |-> 0, done_at |-> -1, outcome |-> "none", raised |-> FALSE]

InitTelegram ==
    /\ pc = "tg_entry"
    /\ arg \in TelegramInputs
    /\ ret = NewNotify
    /\ steps = 0
    /\ url = <<>>
    /\ market = NoMarket
    /\ holdings = <<>>
    /\ call = IdleCall
    /\ split = IdleSplit
    /\ MainIdle

\* lines 642-645: the handler that closes the body of the function
Handled(f) == [f EXCEPT !.outcome = "failed", !.raised = FALSE]

\* lines 592-626: the three early returns, or the worker is started
TgEnter ==
    /\ pc = "tg_entry"
    /\ IF ~arg.available \/ ~arg.token \/ ~arg.chat
       THEN /\ ret' = [ret EXCEPT !.outcome = "skipped"]
            /\ pc' = "tg_returned"
       ELSE IF arg.fate = "unstartable"
       THEN /\ ret' = Handled(ret)
            /\ pc' = "tg_returned"
       ELSE /\ ret' = [ret EXCEPT !.worker = "running"]
            /\ pc' = "tg_join"
    /\ UNCHANGED <<url, now, end_time, market, holdings, positions, last_update,
                   call, split, orders, poll, cycle, exit_reason, arg, steps, raised>>

\* lines 614-623: the worker's send ends, well or with an exception, at any
\* moment; a hanging send never does
TgWorker ==
    /\ ret.worker = "running"
    /\ arg.fate # "hangs"
    /\ ret' = [ret EXCEPT !.worker = "done",
                          !.sends = @ + 1,
                          !.done_at = ret.waited,
                          !.result_queue = IF arg.fate = "succeeds" THEN @ + 1 ELSE @,
                          !.error_queue = IF arg.fate = "raises" THEN @ + 1 ELSE @]
    /\ UNCHANGED <<pc, url, now, end_time, market, holdings, positions, last_update,
                   call, split, orders, poll, cycle, exit_reason, arg, steps, raised>>

\* the join as it would be without its timeout
TgTick_no_timeout ==
    /\ pc = "tg_join"
    /\ ret.worker = "running"
    /\ ret' = [ret EXCEPT !.waited = @ + 1]
    /\ UNCHANGED <<pc, url, now, end_time, market, holdings, positions, last_update,
                   call, split, orders, poll, cycle, exit_reason, arg, steps, raised>>

\* line 627: a second passes in thread.join(timeout=10)
TgTick ==
    /\ pc = "tg_join"
    /\ ret.worker = "running"
    /\ ret.waited < JoinTimeout
    /\ ret' = [ret EXCEPT !.waited = @ + 1]
    /\ UNCHANGED <<pc, url, now, end_time, market, holdings, positions, last_update,
                   call, split, orders, poll, cycle, exit_reason, arg, steps, raised>>

\* lines 629-645: join is over; the caller looks at the thread and the
\* queues, and the handler of line 642 takes the error it re-raised
TgJoin ==
    /\ pc = "tg_join"
    /\ ret.worker = "done" \/ ret.waited >= JoinTimeout
    /\ ret' = IF ret.worker = "running" THEN [ret EXCEPT !.outcome = "timed_out"]
               ELSE IF ret.error_queue > 0 THEN Handled(ret)
               ELSE IF ret.result_queue > 0 THEN [ret EXCEPT !.outcome = "sent"]
               ELSE [ret EXCEPT !.outcome = "unconfirmed"]
    /\ pc' = "tg_returned"
    /\ steps' = steps + 1
    /\ UNCHANGED <<url, now, end_time, market, holdings, positions, last_update,
                   call, split, orders, poll, cycle, exit_reason, arg, raised>>

NextTelegram == TgEnter \/ TgWorker \/ TgTick \/ TgJoin

SpecTelegram == InitTelegram /\ [][NextTelegram]_vars

----------------------------------------------------------------------------
(* Properties of main().  `poll` and `orders` are written together by an   *)
(* iteration of the monitoring loop: while poll.kind is not "none", orders *)
(* holds the close calls of the iteration poll describes.                  *)

TokensIn(ps) == {ps[i].token_id : i \in 1..Len(ps)}

\* a close call for position p is among the calls o
SoldIn(o, p) ==
    \E j \in 1..Len(o) :
        /\ o[j].side = "SELL"
        /\ o[j].token_id = p.token_id
        /\ o[j].amount = p.shares

\* C1: a poll that saw at most one minute remaining (60 seconds or less,
\* zero and negative included) has made a close call for every position it
\* tracked, and the monitoring loop is left.
C1_FinalCloseForAll ==
    (poll.kind # "none" /\ poll.r <= FinalWindow)
        => /\ pc = "roll"
           /\ \A i \in 1..Len(poll.tracked) : SoldIn(orders, poll.tracked[i])

C3_NotTrackedAgain ==
    (cycle.rule7 # NoToken /\ poll.kind \notin {"none", "rule7"})
        => /\ cycle.rule7 \notin TokensIn(poll.tracked)
           /\ \A j \in 1..Len(orders) : orders[j].token_id # cycle.rule7

\* a token of the current market is held
HeldInMarket ==
    \E t \in SeqToSet(market.tokens) : SharesHeld(holdings, t) > 0

\* C4: when an opening buy order of the cycle was accepted and a token of
\* the market is held, main() has left its outer loop only on operator
\* action.
C4_ExitOnlyByOperator ==
    (pc = "done" /\ cycle.accepted > 0 /\ HeldInMarket)
        => exit_reason \in {"interrupt", "empty_url"}

\* C5: the step that issues the opening orders never ends main(): it goes on
\* to the monitoring loop however many of the orders were accepted.
C5_OpenThenMonitor ==
    [][(pc = "check" /\ ~cycle.opened /\ cycle'.opened /\ split'.buys # <<>>)
          => pc' # "done"]_vars

\* C7: a step in which an exception is raised hands over to the handler with
\* the URL unchanged, and the handler's only exits are the restart of the
\* same URL from market resolution 30 seconds later or the operator's
\* interrupt.
C7_CaughtAndRetried ==
    [][/\ (raised' # raised) => (pc' = "error_pause" /\ url' = url)
       /\ (pc = "error_pause")
            => \/ pc' = "resolve" /\ url' = url /\ now' = now + RetryPause
               \/ pc' = "done" /\ exit_reason' = "interrupt"]_vars

\* after a caught exception a new cycle got past market resolution
C7_Restarted == pc = "wait_check" /\ raised >= 1 /\ exit_reason = "running"

\* C9: the final close makes one close call per tracked position, in order,
\* whatever the earlier calls returned, and main() stands at the roll to the
\* next URL afterwards.
C9_AllAttemptedThenRoll ==
    (poll.kind = "final")
        => /\ pc = "roll"
           /\ Len(orders) = Len(poll.tracked)
           /\ \A i \in 1..Len(orders) :
                 /\ orders[i].side = "SELL"
                 /\ orders[i].token_id = poll.tracked[i].token_id
                 /\ orders[i].amount = poll.tracked[i].shares

\* a close call ran out of retries and the position after it was attempted
C9_AfterExhausted ==
    /\ poll.kind = "final"
    /\ pc = "roll"
    /\ \E i \in 1..Len(orders), j \in 1..Len(orders) :
          /\ i < j
          /\ ~orders[i].result
          /\ orders[i].posted = DefaultMaxRetries
          /\ orders[j].posted >= 1

----------------------------------------------------------------------------
(* Properties of create_split_position.                                    *)

\* one order per outcome token, in order, each a buy of the call's amount
OnePerOutcome ==
    /\ Len(split.buys) = Len(market.tokens)
    /\ \A i \in 1..Len(split.buys) :
          /\ split.buys[i].side = "BUY"
          /\ split.buys[i].token_id = market.tokens[i]
          /\ split.buys[i].amount = split.amount_usd

\* C6: for every market of N outcome tokens the returned call has issued
\* exactly N buy orders, one per outcome token, each of the configured amount.
C6_NOrders == (pc = "returned") => OnePerOutcome

\* C6 amended: for every market of N >= 2 outcome tokens the returned call
\* has issued exactly N buy orders, one per outcome token, each of the
\* configured amount, whatever became of the earlier ones.
C6_NOrdersFromTwo ==
    (pc = "returned" /\ Len(market.tokens) >= 2) => OnePerOutcome

\* an order failed and the order for a later outcome was still posted
C6_FailedThenNext ==
    /\ pc = "returned"
    /\ Len(market.tokens) >= 2
    /\ \E i \in 1..Len(split.buys), j \in 1..Len(split.buys) :
          /\ i < j
          /\ ~split.buys[i].result
          /\ split.buys[j].posted = 1

----------------------------------------------------------------------------
(* Properties of close_position_with_retry.                                *)

\* C8: the call never begins more than max_retries passes, submits at most
\* max_retries orders, submits nothing after a submission that did not
\* raise, and returns True exactly when one did not raise.
C8_StopsAtFirstSubmitted ==
    /\ call.attempt <= call.max_retries
    /\ call.posted <= call.max_retries
    /\ call.accepted <= 1
    /\ (pc = "returned") => (call.result <=> call.accepted >= 1)

----------------------------------------------------------------------------
(* Properties of update_url_to_next_hour.                                  *)

HourKinds == {"am", "pm"}

\* the hour after h o'clock `kind` on the 12-hour clock
NextOnClock(kind, h) ==
    IF h = 11 THEN [kind |-> IF kind = "am" THEN "pm" ELSE "am", h |-> 12]
    ELSE IF h = 12 THEN [kind |-> kind, h |-> 1]
    ELSE [kind |-> kind, h |-> h + 1]

\* C10: a URL whose one hour token is N am or N pm, 1 <= N <= 12, comes back
\* with that token replaced by its successor on the 12-hour clock.
C10_ClockSuccessor ==
    (pc = "url_ret")
        => \A i \in 1..Len(arg) :
              (/\ arg[i].kind \in HourKinds
               /\ arg[i].h \in 1..12
               /\ \A j \in 1..Len(arg) : j # i => arg[j].kind = "text")
                 => /\ Len(ret) = Len(arg)
                    /\ ret[i].kind = NextOnClock(arg[i].kind, arg[i].h).kind
                    /\ ret[i].h = NextOnClock(arg[i].kind, arg[i].h).h

----------------------------------------------------------------------------
(* Properties of get_positions_from_trades and get_market_positions.       *)

\* the sizes of the account's trades of token t on one side, summed
RECURSIVE SizeSum(_, _, _)
SizeSum(trades, t, side) ==
    IF trades = <<>> THEN 0
    ELSE (IF Head(trades).mine /\ Head(trades).token_id = t /\ Head(trades).side = side
          THEN Head(trades).size ELSE 0)
         + SizeSum(Tail(trades), t, side)

NetShares(trades, t) == SizeSum(trades, t, "BUY") - SizeSum(trades, t, "SELL")

Reported(ps, t) == \E i \in 1..Len(ps) : ps[i].token_id = t

\* C12: the shares aggregated for a token are the account's buy sizes minus
\* its sell sizes, and a token of the market is reported as a position iff
\* that number is > 0 and at least 1.0 share; the position carries it.
C12_NetSharesReported ==
    (pc = "positions_ret")
        => \A t \in TradeTokens :
              /\ SharesHeld(holdings, t) = NetShares(arg, t)
              /\ Matches(t, market)
                    => /\ Reported(ret, t)
                          <=> (NetShares(arg, t) > 0 /\ NetShares(arg, t) >= OneShare)
                       /\ \A i \in 1..Len(ret) :
                             ret[i].token_id = t => ret[i].shares = NetShares(arg, t)

\* 1.5 shares bought in two trades and half a share sold: one share reported
C12_BoughtAndSold ==
    /\ pc = "positions_ret"
    /\ SizeSum(arg, ListedToken, "BUY") = 15
    /\ SizeSum(arg, ListedToken, "SELL") = 5
    /\ Reported(ret, ListedToken)

\* C13: every position returned is of a token the market lists or of a
\* token whose trades name the market's condition id.
C13_OnlyThisMarket ==
    (pc = "positions_ret")
        => \A i \in 1..Len(ret) :
              \/ ret[i].token_id \in SeqToSet(market.tokens)
              \/ ret[i].token_id.m = market.condition_id

\* a share of another market's token is held and is not returned, while the
\* token matched by its condition id alone is
C13_ForeignLeftOut ==
    /\ pc = "positions_ret"
    /\ SharesHeld(holdings, ForeignToken) >= OneShare
    /\ ~Reported(ret, ForeignToken)
    /\ Reported(ret, UnlistedToken)

\* both price endpoints raised for the token
BothFail(q) == q.mid = "raise" /\ q.px = "raise"

\* C14: a held token (1.0 share or more) for which both price endpoints
\* raise is still returned, with current_price 0, current_value 0 and a P&L
\* of minus its total cost.
C14_ZeroPriceOnFailure ==
    (pc = "price_ret")
        => \A t \in DOMAIN holdings :
              (BothFail(arg[t]) /\ holdings[t].shares >= OneShare)
                 => \E i \in 1..Len(ret.positions) :
                       /\ ret.positions[i].token_id = t
                       /\ ret.positions[i].total_cost = holdings[t].cost
                       /\ ret.positions[i].current_price = 0
                       /\ ret.positions[i].current_value = 0
                       /\ ret.positions[i].pnl = 0 - holdings[t].cost

\* one position priced at zero after both endpoints raised, beside one
\* that got its midpoint
C14_OneUnpriced ==
    /\ pc = "price_ret"
    /\ Len(ret.positions) = 2
    /\ BothFail(arg[ret.positions[1].token_id])
    /\ ret.positions[1].pnl = -5000
    /\ ret.positions[2].current_price = 25

\* C19: for each token of the market the midpoint endpoint is asked first,
\* and get_price is asked exactly when the midpoint gave no price (it raised
\* or answered without a usable value).
C19_FallbackWhenNoMidpoint ==
    (pc = "price_ret")
        => \A t \in DOMAIN ret.calls :
              /\ ret.calls[t][1] = "get_midpoint"
              /\ ("get_price" \in SeqToSet(ret.calls[t])) <=> (arg[t].mid # "price")

----------------------------------------------------------------------------
(* Properties of get_market_info.                                          *)

\* C15: for a slug whose metadata record lacks a condition id, the exchange
\* is asked by the slug and its answer is what the call returns.
C15_FallbackBySlug ==
    (/\ pc = "info_ret"
     /\ arg.id = Slug
     /\ arg.gamma.found /\ arg.gamma.conditionId = NoId)
        => /\ "exchange_by_identifier" \in SeqToSet(ret.asked)
           /\ arg.by_identifier.kind = "market"
                => ret.value = FromExchange(arg.by_identifier)

----------------------------------------------------------------------------
(* Properties of send_telegram_notification.                               *)

\* C16: no exception leaves the call and the send is made at most once; the
\* caller never waits more than 10 seconds, and it is back at the moment
\* the worker ended unless it reported a timeout after the full 10 seconds.
C16_NeverRaisesNorBlocks ==
    /\ ~ret.raised
    /\ ret.sends <= 1
    /\ ret.waited <= 10
    /\ (pc = "tg_returned" /\ ret.worker # "none")
          => IF ret.outcome = "timed_out" THEN ret.waited = 10
             ELSE ret.waited = ret.done_at

\* the caller is back after 10 seconds from a send that hangs
C16_HungWorker ==
    /\ pc = "tg_returned"
    /\ arg.fate = "hangs"
    /\ ret.outcome = "timed_out"
    /\ ret.worker = "running"

----------------------------------------------------------------------------
(* Further properties of main() and close_position_with_retry.             *)

\* C17: a poll with more than 60 seconds remaining and outside the window
\* of 420 <= r < 480 seconds makes no close call.
C17_NoSellOutsideWindows ==
    (poll.kind # "none" /\ poll.r > 60 /\ ~(420 <= poll.r /\ poll.r < 480))
        => orders = <<>>

\* two positions tracked with between 1 and 2 minutes left, and left alone
C17_HeldAtTwoMinutes ==
    /\ poll.kind = "wait"
    /\ poll.r > 60
    /\ poll.r <= 120
    /\ Len(poll.tracked) = 2
    /\ orders = <<>>

\* the waits the source's formula gives after failed attempts 1, 2, 3, ...
Backoff == <<2, 4, 8, 10, 10, 10, 10, 10, 10, 10>>

\* C18: the k-th wait of a call is min(2^k, 10) seconds; every attempt that
\* failed (raised inside the try) and was not the last permitted one was
\* followed by a wait, and neither the last failed attempt nor a successful
\* attempt was.
C18_BackoffSchedule ==
    /\ \A k \in 1..Len(call.waits) : call.waits[k] = Backoff[k]
    /\ (pc = "closing") => Len(call.waits) = call.attempt
    /\ (pc = "returned")
          => Len(call.waits) = IF call.attempt = 0 THEN 0 ELSE call.attempt - 1

\* a call that succeeded at its fifth attempt, after waits of 2, 4, 8, 10 s
C18_FifthAttempt ==
    /\ pc = "returned"
    /\ call.result
    /\ call.attempt = 5
    /\ call.waits = <<2, 4, 8, 10>>

\* C20: the boundary a cycle sets at its start is the next full hour after
\* that moment, and nothing but the start of a cycle changes it.
C20_BoundarySetOnce ==
    [][/\ (pc = "resolve" /\ pc' = "wait_check")
            => /\ end_time' > now
               /\ end_time' - now <= 3600
               /\ end_time' % 3600 = 0
       /\ (pc # "resolve") => end_time' = end_time]_vars

\* polls have run under a boundary that is not the end date the market
\* declares
C20_NotTheDeclaredEnd ==
    /\ pc = "sleep"
    /\ poll.kind = "wait"
    /\ market.end_date_iso # 0
    /\ end_time # market.end_date_iso
    /\ end_time % 3600 = 0

----------------------------------------------------------------------------
(* Properties of main(): status updates, cycle boundaries, the price and   *)
(* the ledger behind a decision.                                           *)

\* C21: a poll at which 300 seconds or more have passed since the last
\* status update (or since monitoring began), with positions of the market
\* open, has sent a status notification, whatever else the poll did.
C21_StatusEveryFiveMinutes ==
    (poll.kind # "none" /\ poll.due /\ (poll.tracked # <<>> \/ HeldInMarket))
        => poll.status

\* the step of main() that submits the opening buy orders, the exchange
\* taking at least one
OpensPositions ==
    /\ pc = "check"
    /\ ~cycle.opened
    /\ cycle'.opened
    /\ \E i \in 1..Len(split'.buys) : split'.buys[i].accepted = 1

\* C23: when main() submits the opening buy orders of a cycle, the boundary
\* of that cycle is still in the future.
C23_OpenedBeforeBoundary ==
    [][OpensPositions => end_time > now]_vars

\* C24: a cycle whose URL came from update_url_to_next_hour sets its
\* boundary exactly one hour after the boundary of the cycle before it.
C24_BoundaryInLockstep ==
    [][(pc = "resolve" /\ pc' = "wait_check" /\ cycle.rolled)
          => end_time' = end_time + 3600]_vars

\* C25: the position the 7-minute rule sold had a price that an endpoint
\* returned at that poll, and that price was below 0.30.
C25_SoldOnLivePriceOnly ==
    (poll.kind = "rule7")
        => /\ ~BothFail(poll.quotes[LosingIndex(poll.tracked)])
           /\ losing_pos(poll.tracked).current_price < 30

\* C26: main() submits opening buy orders only when the account holds less
\* than 1 share of every token of the market.
C26_OpenedOnlyWhenFlat ==
    [][OpensPositions
          => \A t \in SeqToSet(market.tokens) : SharesHeld(holdings, t) < 10]_vars

\* C27: in one run of the monitoring loop at most one poll sees a remaining
\* time of 7 to 8 minutes, and the 7-minute rule makes at most one close
\* call in it.
C27_OneWindowPoll ==
    /\ cycle.windows <= 1
    /\ (cycle.rule7 # NoToken) => cycle.windows = 1
    /\ (poll.kind = "rule7") => Len(orders) = 1

\* the poll in the window has passed and later polls of the loop have run
C27_PastTheWindow ==
    /\ cycle.windows = 1
    /\ poll.kind = "wait"
    /\ poll.r < 420
    /\ cycle.rule7 # NoToken

----------------------------------------------------------------------------
(* close_position_with_retry: what follows an answered order.              *)

\* C28: once post_order has returned without raising, the call submits no
\* further sell order, whatever post_order returned.
C28_NoOrderAfterAnswer ==
    [][(call.accepted >= 1) => call'.posted = call.posted]_vars

----------------------------------------------------------------------------
(* rpc_call_with_retry(w3, func, *args, max_retries=5, initial_delay=10)   *)
(* of splitPosition2.py.  The message of an exception is a sequence of     *)
(* phrases, each in lower case or not; "retry in" may carry a number.      *)

DefaultRpcRetries == 5
DefaultInitialDelay == 10
MaxRpcRetries == 3

Phrase(w, upper, n) == [w |-> w, upper |-> upper, n |-> n]

\* no number after "retry in"
NoNumber == 0 - 1

Messages ==
    { <<>>,
      <<Phrase("connection reset", FALSE, NoNumber)>>,
      <<Phrase("rate limit", FALSE, NoNumber)>>,
      <<Phrase("rate limit", TRUE, NoNumber), Phrase("retry in", FALSE, 3)>>,
      <<Phrase("too many requests", TRUE, NoNumber)>>,
      <<Phrase("too many requests", FALSE, NoNumber), Phrase("retry in", TRUE, NoNumber)>>,
      <<Phrase("connection reset", TRUE, NoNumber), Phrase("retry in", FALSE, 3)>> }

\* what one invocation of the wrapped call does
Fates ==
    {[kind |-> "returns", value |-> v, type |-> "", msg |-> <<>>] : v \in {1, 2}}
        \cup {[kind |-> "raises", value |-> 0, type |-> "HTTPError", msg |-> m] : m \in Messages}

\* str.lower()
Lower(msg) == [i \in 1..Len(msg) |-> [msg[i] EXCEPT !.upper = FALSE]]

\* `w in text`, for a phrase w written in lower case
Contains(msg, w) == \E i \in 1..Len(msg) : msg[i].w = w /\ ~msg[i].upper

\* the test of line 137 as it would be without .lower()
is_rate_limit_as_written(msg) ==
    Contains(msg, "rate limit") \/ Contains(msg, "too many requests")

\* line 137
is_rate_limit(msg) ==
    Contains(Lower(msg), "rate limit") \/ Contains(Lower(msg), "too many requests")

\* lines 138-142: the seconds to wait
retry_time(msg, initial_delay) ==
    LET low == Lower(msg)
        hits == {i \in 1..Len(low) : low[i].w = "retry in" /\ low[i].n # NoNumber}
    IN IF Contains(low, "retry in") /\ hits # {}
       THEN low[CHOOSE i \in hits : \A j \in hits : i <= j].n
       ELSE initial_delay

RuntimeError(msg) == [type |-> "RuntimeError", msg |-> msg]

NoError == [type |-> "", msg |-> <<>>]

\* The frame of a call: `attempt` is the loop variable, `invoked` counts the
\* invocations of func, `last` is what the latest invocation did.
NewRpc == [attempt |-> 0, invoked |-> 0, waits |-> <<>>, outcome |-> "running",
           value |-> 0, error |-> NoError,
           last |-> [kind |-> "", value |-> 0, type |-> "", msg |-> <<>>]]

RpcInputs ==
    {[max_retries |-> n, initial_delay |-> d] :
        n \in (0..MaxRpcRetries) \cup {DefaultRpcRetries}, d \in {DefaultInitialDelay, 1}}

InitRpc ==
    /\ pc = "rpc_loop"
    /\ arg \in RpcInputs
    /\ ret = NewRpc
    /\ steps = 0
    /\ url = <<>>
    /\ market = NoMarket
    /\ holdings = <<>>
    /\ call = IdleCall
    /\ split = IdleSplit
    /\ MainIdle

\* lines 133-153: one pass of the loop, or the statement after it
RpcStep ==
    /\ pc = "rpc_loop"
    /\ IF ret.attempt >= arg.max_retries
       THEN /\ ret' = [ret EXCEPT !.outcome = "raised",                  \* line 153
                                  !.error = RuntimeError(<<Phrase("failed after", FALSE,
                                                                  arg.max_retries)>>)]
            /\ UNCHANGED <<now, steps>>
       ELSE \E f \in Fates :
               /\ steps' = steps + 1
               /\ IF f.kind = "returns"
                  THEN /\ ret' = [ret EXCEPT !.invoked = @ + 1, !.last = f,  \* line 135
                                             !.outcome = "returned", !.value = f.value]
                       /\ UNCHANGED now
                  ELSE IF ~is_rate_limit(f.msg)
                  THEN /\ ret' = [ret EXCEPT !.invoked = @ + 1, !.last = f,  \* line 152
                                             !.outcome = "raised",
                                             !.error = [type |-> f.type, msg |-> f.msg]]
                       /\ UNCHANGED now
                  ELSE IF ret.attempt < arg.max_retries - 1
                  THEN /\ ret' = [ret EXCEPT !.invoked = @ + 1, !.last = f,  \* lines 144-147
                                             !.attempt = @ + 1,
                                             !.waits = Append(@, retry_time(f.msg,
                                                                    arg.initial_delay))]
                       /\ now' = now + retry_time(f.msg, arg.initial_delay)
                  ELSE /\ ret' = [ret EXCEPT !.invoked = @ + 1, !.last = f,  \* line 149
                                             !.outcome = "raised",
                                             !.error = RuntimeError(
                                                 <<Phrase("rate limit error after", TRUE,
                                                          arg.max_retries)>> \o f.msg)]
                       /\ UNCHANGED now
    /\ pc' = IF ret'.outcome = "running" THEN "rpc_loop" ELSE "rpc_done"
    /\ UNCHANGED <<url, end_time, market, holdings, positions, last_update,
                   call, split, orders, poll, cycle, exit_reason, arg, raised>>

SpecRpc == InitRpc /\ [][RpcStep]_vars

\* the message names a rate limit, in whatever letter case
NamesRateLimit(msg) ==
    \E i \in 1..Len(msg) : msg[i].w \in {"rate limit", "too many requests"}

\* C22: func is invoked at most max_retries times; the call returns the
\* value of the first invocation that succeeds, at once; an exception whose
\* message names no rate limit leaves the call unchanged, at once; a
\* rate-limit exception at the last permitted attempt becomes a RuntimeError.
C22_RetryOnRateLimitOnly ==
    /\ ret.invoked <= arg.max_retries
    /\ (ret.last.kind = "returns")
          => /\ pc = "rpc_done"
             /\ ret.outcome = "returned"
             /\ ret.value = ret.last.value
    /\ (ret.last.kind = "raises" /\ ~NamesRateLimit(ret.last.msg))
          => /\ pc = "rpc_done"
             /\ ret.outcome = "raised"
             /\ ret.error = [type |-> ret.last.type, msg |-> ret.last.msg]
    /\ (ret.last.kind = "raises" /\ NamesRateLimit(ret.last.msg)
                                /\ ret.invoked = arg.max_retries)
          => /\ pc = "rpc_done"
             /\ ret.outcome = "raised"
             /\ ret.error.type = "RuntimeError"

\* two rate-limit errors were waited out (3 s as the message asked, then the
\* default 10 s) and the third invocation returned
C22_ThirdTimeLucky ==
    /\ pc = "rpc_done"
    /\ ret.outcome = "returned"
    /\ ret.invoked = 3
    /\ ret.waits = <<3, 10>>
    /\ now = 13

----------------------------------------------------------------------------
(* update_url_to_next_hour: what it leaves alone.                          *)

----------------------------------------------------------------------------
(* send_telegram_notification called several times in a row, as main()     *)
(* does.  Queue objects live in a heap: `ret.heap[q]` is the number of     *)
(* items in queue q; a frame holds the identities of the two queues its    *)
(* call created, and the worker of the call holds the same two.            *)

MaxCalls == 2

NotifyFates == {"succeeds", "raises", "hangs"}

\* the call has run lines 609-610 as they would be with the two queues
\* created once, at module level
AllocQueues_module_level(heap) ==
    IF heap = <<>>
    THEN [heap |-> <<0, 0>>, result_queue |-> 1, error_queue |-> 2]
    ELSE [heap |-> heap, result_queue |-> 1, error_queue |-> 2]

\* lines 609-610: queue.Queue() twice, two new objects
AllocQueues(heap) ==
    [heap |-> heap \o <<0, 0>>,
     result_queue |-> Len(heap) + 1,
     error_queue |-> Len(heap) + 2]

\* `joined` is the state of the worker when join returned
NotifyFrame(queues) ==
    [worker |-> "running", result_queue |-> queues.result_queue,
     error_queue |-> queues.error_queue, waited |-> 0, joined |-> "none",
     outcome |-> "none"]

InitNotify ==
    /\ pc = "nt_entry"
    /\ arg \in [1..MaxCalls -> NotifyFates]
    /\ ret = [calls |-> <<>>, heap |-> <<>>]
    /\ steps = 0
    /\ url = <<>>
    /\ market = NoMarket
    /\ holdings = <<>>
    /\ call = IdleCall
    /\ split = IdleSplit
    /\ MainIdle

\* lines 604-626: the next call creates its queues and starts its worker
NtEnter ==
    /\ pc = "nt_entry"
    /\ Len(ret.calls) < MaxCalls
    /\ \E queues \in {AllocQueues(ret.heap)} :
          ret' = [calls |-> Append(ret.calls, NotifyFrame(queues)), heap |-> queues.heap]
    /\ pc' = "nt_join"
    /\ UNCHANGED <<url, now, end_time, market, holdings, positions, last_update,
                   call, split, orders, poll, cycle, exit_reason, arg, steps, raised>>

\* lines 612-623: the worker of call j ends, at any moment, and puts True or
\* the exception into the queue it was given
NtWorker(j) ==
    /\ ret.calls[j].worker = "running"
    /\ arg[j] # "hangs"
    /\ \E q \in {IF arg[j] = "succeeds" THEN ret.calls[j].result_queue
                 ELSE ret.calls[j].error_queue} :
          ret' = [ret EXCEPT !.calls[j].worker = "done", !.heap[q] = @ + 1]
    /\ UNCHANGED <<pc, url, now, end_time, market, holdings, positions, last_update,
                   call, split, orders, poll, cycle, exit_reason, arg, steps, raised>>

\* line 627: a second passes in thread.join(timeout=10)
NtTick ==
    LET k == Len(ret.calls)
    IN /\ pc = "nt_join"
       /\ ret.calls[k].worker = "running"
       /\ ret.calls[k].waited < JoinTimeout
       /\ ret' = [ret EXCEPT !.calls[k].waited = @ + 1]
       /\ UNCHANGED <<pc, url, now, end_time, market, holdings, positions, last_update,
                      call, split, orders, poll, cycle, exit_reason, arg, steps, raised>>

\* lines 629-645: join is over; the caller looks at its thread and at its
\* two queues, takes the error out if there is one, and returns
NtJoin ==
    LET k == Len(ret.calls)
        f == ret.calls[k]
    IN /\ pc = "nt_join"
       /\ f.worker = "done" \/ f.waited >= JoinTimeout
       /\ ret' = IF f.worker = "running"
                  THEN [ret EXCEPT !.calls[k].outcome = "timed_out",
                                   !.calls[k].joined = f.worker]
                  ELSE IF ret.heap[f.error_queue] > 0
                  THEN [ret EXCEPT !.calls[k].outcome = "failed",
                                   !.calls[k].joined = f.worker,
                                   !.heap[f.error_queue] = @ - 1]
                  ELSE IF ret.heap[f.result_queue] > 0
                  THEN [ret EXCEPT !.calls[k].outcome = "sent",
                                   !.calls[k].joined = f.worker]
                  ELSE [ret EXCEPT !.calls[k].outcome = "unconfirmed",
                                   !.calls[k].joined = f.worker]
       /\ pc' = IF k < MaxCalls THEN "nt_entry" ELSE "nt_done"
       /\ steps' = steps + 1
       /\ UNCHANGED <<url, now, end_time, market, holdings, positions, last_update,
                      call, split, orders, poll, cycle, exit_reason, arg, raised>>

NextNotify ==
    \/ NtEnter
    \/ \E j \in 1..Len(ret.calls) : NtWorker(j)
    \/ NtTick
    \/ NtJoin

SpecNotify == InitNotify /\ [][NextNotify]_vars

\* what call j reports when only its own worker counts
OwnOutcome(j) ==
    IF ret.calls[j].joined = "running" THEN "timed_out"
    ELSE IF arg[j] = "raises" THEN "failed"
    ELSE "sent"

\* the variables the monitoring loop reads
loop_state == <<url, now, end_time, market, holdings, positions, last_update>>

\* C29: every call has two queues that no other call has; the outcome a
\* call reports is that of its own worker, whatever the worker of an earlier
\* call did after its caller timed out; and the step of a worker changes
\* nothing the monitoring loop reads.
C29_OwnQueues ==
    [][/\ \A i \in 1..Len(ret'.calls), j \in 1..Len(ret'.calls) :
             i # j => {ret'.calls[i].result_queue, ret'.calls[i].error_queue}
                         \cap {ret'.calls[j].result_queue, ret'.calls[j].error_queue} = {}
       /\ \A j \in 1..Len(ret'.calls) :
             /\ ret'.calls[j].result_queue # ret'.calls[j].error_queue
             /\ ret'.calls[j].outcome # "none" => ret'.calls[j].outcome = OwnOutcome(j)'
       /\ (\E j \in 1..Len(ret.calls) : NtWorker(j)) => loop_state' = loop_state]_vars

\* the first call timed out, its worker failed afterwards, and the second
\* call reported its own message as sent
C29_LateFailureUnseen ==
    /\ Len(ret.calls) = 2
    /\ ret.calls[1].outcome = "timed_out"
    /\ ret.calls[1].worker = "done"
    /\ arg[1] = "raises"
    /\ ret.calls[2].outcome = "sent"

====
